---- MODULE Spec2Model ----
(***************************************************************************)
(* ga-extractor: expansion of aggregated analytics rows (page views and    *)
(* sessions per group) into synthetic session and page-view-event records. *)
(* Two programs are modelled: src/ga4_extractor/extractor.py ("ga4") and   *)
(* src/ga_extractor/extractor.py ("ua", the legacy Universal Analytics      *)
(* extractor).                                                             *)
(*                                                                         *)
(* Strings that the code parses character by character (dates, the         *)
(* dateHourMinute dimension) are sequences of one-character strings;       *)
(* strings the code only copies, compares or concatenates are TLA+ strings.*)
(***************************************************************************)
EXTENDS Integers, Sequences, FiniteSets, TLC

VARIABLES
    prog,       \* which program runs: "ga4" or "ua"
    pc,         \* position of the migrate command
    startdate,  \* run parameter / config['startDate'], 'YYYY-MM-DD'
    enddate,    \* run parameter / config['endDate'], 'YYYY-MM-DD'
    dates,      \* result of _dates / __migrate_date_ranges
    di,         \* index into dates of the day being fetched (for-loop position)
    offset,     \* ga4: pagination offset of the next request
    source,     \* the rows the provider holds, one list per day of dates
    fetched,    \* ua: the rows dict, as a sequence of [day, value];
                \* ga4: history of the pages received, [day, offset, value]
    file,       \* lines of the output file, in order
    uuid,       \* number of identifiers uuid.uuid4() has issued so far
    log         \* history: one entry [row, recs] per row expanded

vars == <<prog, pc, startdate, enddate, dates, di, offset, source, fetched, file, uuid, log>>

(***************************************************************************)
(* Bounds of the model.                                                    *)
(***************************************************************************)
MaxViews == 4
MaxSessions == 3
MaxRows == 2
MaxSpan == 3

\* F(v), with v evaluated once; the same value as F(v)
With(v, F(_)) == CHOOSE r \in { F(x) : x \in {v} } : TRUE

(***************************************************************************)
(* Characters and numbers.                                                 *)
(***************************************************************************)
DigitChars == <<"0", "1", "2", "3", "4", "5", "6", "7", "8", "9">>

IsDigit(c) == \E i \in 1..10 : DigitChars[i] = c

DigitVal(c) == (CHOOSE i \in 1..10 : DigitChars[i] = c) - 1

\* int() of a field the regex matched: digits, possibly after one space
RECURSIVE IntOf(_)
IntOf(cs) ==
    IF cs = <<>> THEN 0
    ELSE IF cs[Len(cs)] = " " THEN 0
    ELSE 10 * IntOf(SubSeq(cs, 1, Len(cs) - 1)) + DigitVal(cs[Len(cs)])

\* zero-padded decimal rendering, as one-character strings
RECURSIVE Pad(_, _)
Pad(n, w) ==
    IF w = 0 THEN <<>>
    ELSE Append(Pad(n \div 10, w - 1), DigitChars[(n % 10) + 1])

\* the characters joined into one string
RECURSIVE Join(_)
Join(cs) == IF cs = <<>> THEN "" ELSE cs[1] \o Join(Tail(cs))

(***************************************************************************)
(* The calendar of datetime.                                               *)
(***************************************************************************)
IsLeap(y) == (y % 4 = 0) /\ ((y % 100 # 0) \/ (y % 400 = 0))

DaysInMonth(y, m) ==
    IF m = 2 THEN (IF IsLeap(y) THEN 29 ELSE 28)
    ELSE IF m \in {4, 6, 9, 11} THEN 30 ELSE 31

DaysBeforeYear(y) ==
    (y - 1) * 365 + ((y - 1) \div 4) - ((y - 1) \div 100) + ((y - 1) \div 400)

RECURSIVE DaysBeforeMonth(_, _)
DaysBeforeMonth(y, m) ==
    IF m = 1 THEN 0 ELSE DaysBeforeMonth(y, m - 1) + DaysInMonth(y, m - 1)

\* date.toordinal()
ToOrdinal(dt) == DaysBeforeYear(dt.Y) + DaysBeforeMonth(dt.Y, dt.m) + dt.d

\* date.fromordinal(): the year, month and day holding day number n
FromOrdinal(n) ==
    LET y == CHOOSE yy \in ((n \div 366) .. (n \div 365 + 1)) :
                 DaysBeforeYear(yy) < n /\ n <= DaysBeforeYear(yy + 1)
        r == n - DaysBeforeYear(y)
        m == CHOOSE mm \in 1..12 :
                 DaysBeforeMonth(y, mm) < r
                 /\ r <= DaysBeforeMonth(y, mm) + DaysInMonth(y, mm)
    IN [Y |-> y, m |-> m, d |-> r - DaysBeforeMonth(y, m)]

(***************************************************************************)
(* datetime.strptime: the format is compiled to a regular expression whose *)
(* directives accept one- or two-character fields, the two-character       *)
(* alternative first; the first match of a prefix is taken (backtracking   *)
(* in priority order) and must then cover the whole string.                *)
(***************************************************************************)
FieldWidths(tok) == IF tok = "%Y" THEN <<4>> ELSE <<2, 1>>

IsDirective(tok) == tok \in {"%Y", "%m", "%d", "%H", "%M"}

FieldOk(tok, cs) ==
    LET a == cs[1]
        b == cs[2]
    IN CASE tok = "%Y" -> \A i \in 1..4 : IsDigit(cs[i])
         [] tok = "%m" /\ Len(cs) = 2 ->
                (a = "1" /\ b \in {"0", "1", "2"}) \/ (a = "0" /\ IsDigit(b) /\ b # "0")
         [] tok = "%m" /\ Len(cs) = 1 -> IsDigit(a) /\ a # "0"
         [] tok = "%d" /\ Len(cs) = 2 ->
                \/ (a = "3" /\ b \in {"0", "1"})
                \/ (a \in {"1", "2"} /\ IsDigit(b))
                \/ (a \in {"0", " "} /\ IsDigit(b) /\ b # "0")
         [] tok = "%d" /\ Len(cs) = 1 -> IsDigit(a) /\ a # "0"
         [] tok = "%H" /\ Len(cs) = 2 ->
                (a = "2" /\ b \in {"0", "1", "2", "3"}) \/ (a \in {"0", "1"} /\ IsDigit(b))
         [] tok = "%H" /\ Len(cs) = 1 -> IsDigit(a)
         [] tok = "%M" /\ Len(cs) = 2 ->
                a \in {"0", "1", "2", "3", "4", "5"} /\ IsDigit(b)
         [] tok = "%M" /\ Len(cs) = 1 -> IsDigit(a)
         [] OTHER -> FALSE

NoMatch == [ok |-> FALSE]

\* format_regex.match(data_string) from position pos, format token i onwards
RECURSIVE re_match(_, _, _, _)
re_match(fmt, i, s, pos) ==
    IF i > Len(fmt) THEN [ok |-> TRUE, end |-> pos, val |-> <<>>]
    ELSE IF ~IsDirective(fmt[i])
    THEN IF pos <= Len(s) /\ s[pos] = fmt[i]
         THEN re_match(fmt, i + 1, s, pos + 1)
         ELSE NoMatch
    ELSE LET try(w) ==
                 IF pos + w - 1 <= Len(s) /\ FieldOk(fmt[i], SubSeq(s, pos, pos + w - 1))
                 THEN LET r == re_match(fmt, i + 1, s, pos + w)
                      IN IF r.ok
                         THEN [r EXCEPT !.val =
                                  (fmt[i] :> IntOf(SubSeq(s, pos, pos + w - 1))) @@ @]
                         ELSE NoMatch
                 ELSE NoMatch
             ws == FieldWidths(fmt[i])
             first == try(ws[1])
         IN IF first.ok THEN first
            ELSE IF Len(ws) > 1 THEN try(ws[2]) ELSE NoMatch

\* datetime.strptime(s, fmt): [ok |-> FALSE] stands for the ValueError raised
strptime(s, fmt) ==
    LET found == re_match(fmt, 1, s, 1)
        num(tok) == IF tok \in DOMAIN found.val THEN found.val[tok] ELSE 0
    IN IF ~found.ok THEN NoMatch                          \* does not match format
       ELSE IF found.end # Len(s) + 1 THEN NoMatch        \* unconverted data remains
       ELSE IF num("%Y") < 1 THEN NoMatch                 \* year out of range
       ELSE IF num("%d") > DaysInMonth(num("%Y"), num("%m")) THEN NoMatch
       ELSE [ok |-> TRUE, Y |-> num("%Y"), m |-> num("%m"), d |-> num("%d"),
             H |-> num("%H"), M |-> num("%M")]

DateFormat == <<"%Y", "-", "%m", "-", "%d">>

\* f"{d:%Y-%m-%d}"
FormatDate(dt) == Pad(dt.Y, 4) \o <<"-">> \o Pad(dt.m, 2) \o <<"-">> \o Pad(dt.d, 2)

\* datetime.strptime(s, '%Y-%m-%d') of _dates / __migrate_date_ranges
ParseDate(s) == strptime(s, DateFormat)

\* DateList with range((end - start).days): the last day left out
DateListExclusive(start_date, end_date) ==
    LET s == ToOrdinal(ParseDate(start_date))
        e == ToOrdinal(ParseDate(end_date))
        n == e - s
    IN [d \in 1..(IF n > 0 THEN n ELSE 0) |-> FormatDate(FromOrdinal(s + (d - 1)))]

\* [start_date + timedelta(days=d) for d in range((end - start).days + 1)],
\* each rendered with %Y-%m-%d; range() of a number < 1 is empty
DateList(start_date, end_date) ==
    LET s == ToOrdinal(ParseDate(start_date))
        e == ToOrdinal(ParseDate(end_date))
        n == (e - s) + 1
    IN [d \in 1..(IF n > 0 THEN n ELSE 0) |-> FormatDate(FromOrdinal(s + (d - 1)))]

\* ga4: a list of date strings
_dates(start_date, end_date) == DateList(start_date, end_date)

\* ua: a list of {"startDate": day, "endDate": day}
__migrate_date_ranges(start_date, end_date) ==
    LET ds == DateList(start_date, end_date)
    IN [d \in 1..Len(ds) |-> [startDate |-> ds[d], endDate |-> ds[d]]]

(***************************************************************************)
(* Timestamps.                                                             *)
(***************************************************************************)
UaFormat == <<"%Y", "%m", "%d", "%H", "%M">>

\* the fixed offset each program appends
TzSuffix(p) == IF p = "ga4" THEN ":00.000+0200" ELSE ":00.000+00"

\* datetime.strptime(dt, '%Y%m%d%H%M').strftime("%Y-%m-%d %H:%M:00.000+..")
_convert_ua_datetime(p, dt) ==
    LET t == strptime(dt, UaFormat)
    IN IF ~t.ok THEN [ok |-> FALSE]
       ELSE [ok |-> TRUE,
             value |-> Join(Pad(t.Y, 4)) \o "-" \o Join(Pad(t.m, 2)) \o "-"
                       \o Join(Pad(t.d, 2)) \o " " \o Join(Pad(t.H, 2)) \o ":"
                       \o Join(Pad(t.M, 2)) \o TzSuffix(p)]

(***************************************************************************)
(* Referrers.  validators.url is a library predicate; it is modelled by    *)
(* its verdict on the strings the model uses (a URL needs a scheme and a   *)
(* dotted host name without spaces).                                       *)
(***************************************************************************)
ValidUrls == {"https://example.com/x", "https://example.com", "https://google.com"}

validators_url(u) == u \in ValidUrls

\* ga4: validate the value as it is
Ga4Referrer(raw) == IF ~validators_url(raw) THEN "" ELSE raw

\* ua: prepend the scheme, validate, then the (prefixed) value is compared
\* with "google"
UaReferrer(raw) ==
    LET referrer == "https://" \o raw
    IN IF ~validators_url(referrer) THEN ""
       ELSE IF referrer = "google" THEN "https://google.com"
       ELSE referrer

NormReferrer(p, raw) == IF p = "ga4" THEN Ga4Referrer(raw) ELSE UaReferrer(raw)

(***************************************************************************)
(* Rows.  A row carries nine dimension values, in the order of DIMENSIONS, *)
(* and two metric values (page views, sessions); the metrics are the       *)
(* integers int() reads from the report.                                   *)
(***************************************************************************)
Row(dims, pv, ss) == [dimensions |-> dims, metrics |-> <<pv, ss>>]

DimensionTuples ==
    { <<"/a", "A", "Chrome", "Win", "desktop", "1920x1080",
        <<"2", "0", "2", "4", "0", "1", "0", "1", "0", "9", "3", "0">>,
        "US", "https://example.com/x">>,
      <<"/b?q=1", "B", "Firefox", "Linux", "mobile", "800x600",
        <<"2", "0", "2", "4", "0", "2", "2", "9", "2", "3", "5">>,
        "DE", "example.com">>,
      <<"/c", "C", "Safari", "iOS", "tablet", "1024x768",
        <<"2", "0", "2", "4", "0", "1", "0", "1", "0", "9", "3", "0", "0">>,
        "FR", "bad value">>,
      <<"/d", "D", "Edge", "Mac", "desktop", "1280x720",
        <<"2", "0", "2", "3", "1", "2", "3", "1", "2", "3", "5", "9">>,
        "ES", "google">> }

Rows ==
    { Row(d, pv, ss) : d \in DimensionTuples, pv \in 0..MaxViews, ss \in 0..MaxSessions }

\* the site being migrated: ga4 sites['BYM']; ua: the command's arguments
WebsiteId(p) ==
    IF p = "ga4" THEN "d90f4a57-31d4-4aa0-8ac8-238bc61d2003" ELSE "umami_website_id"

Hostname(p) == IF p = "ga4" THEN "www.bebesymas.com" ELSE "localhost"

(***************************************************************************)
(* Records.  uuid.uuid4() is modelled as issuing the next identifier never *)
(* issued before in the run: st.uuid counts the identifiers issued.        *)
(***************************************************************************)
Session(session_id, website_id, created_at, hostname, browser, os, device, screen, country) ==
    [kind |-> "session", session_id |-> session_id, website_id |-> website_id,
     created_at |-> created_at, hostname |-> hostname, browser |-> browser,
     os |-> os, device |-> device, screen |-> screen, country |-> country]

\* the event together with the visit_id that WebsiteEvent.sql() draws
WebsiteEvent(id, website_id, session_id, created_at, url, title, referrer, visit_id) ==
    [kind |-> "event", id |-> id, website_id |-> website_id, session_id |-> session_id,
     created_at |-> created_at, url |-> url, title |-> title, referrer |-> referrer,
     visit_id |-> visit_id]

\* Session(...) as every branch builds it from the row
RowSession(c, session_id) ==
    Session(session_id, c.website_id, c.timestamp, c.hostname, c.row.dimensions[3],
            c.row.dimensions[4], c.row.dimensions[5], c.row.dimensions[6], c.country)

\* WebsiteEvent(...) as every branch builds it from the row
RowEvent(c, id, session_id, visit_id) ==
    WebsiteEvent(id, c.website_id, session_id, c.timestamp, c.row.dimensions[1],
                 c.row.dimensions[2], c.referrer, visit_id)

\* SessionWithEvent with session_id drawn once, before the loop, instead of
\* once per iteration
SessionWithEventHoisted(c, st) ==
    LET session_id == IF st.session_id = 0 THEN st.uuid + 1 ELSE st.session_id
    IN [out |-> st.out \o <<RowSession(c, session_id),
                            RowEvent(c, st.uuid + 2, session_id, st.uuid + 3)>>,
        uuid |-> st.uuid + 3,
        session_id |-> session_id]

\* SessionWithEvent with the two statements appended in the other order
SessionWithEventSwapped(c, st) ==
    [out |-> st.out \o <<RowEvent(c, st.uuid + 2, st.uuid + 1, st.uuid + 3),
                         RowSession(c, st.uuid + 1)>>,
     uuid |-> st.uuid + 3,
     session_id |-> st.uuid + 1]

\* session_id = uuid.uuid4(); s = Session(..); p = WebsiteEvent(id=uuid.uuid4(), ..);
\* sql_inserts.extend([s.sql(), p.sql()])
SessionWithEvent(c, st) ==
    [out |-> st.out \o <<RowSession(c, st.uuid + 1),
                         RowEvent(c, st.uuid + 2, st.uuid + 1, st.uuid + 3)>>,
     uuid |-> st.uuid + 3,
     session_id |-> st.uuid + 1]

\* for i in range(sessions): a session and one event of it
\* (the loop of the first and of the third branch)
RECURSIVE OneEach(_, _, _, _)
OneEach(c, i, sessions, st) ==
    IF i >= sessions THEN st
    ELSE With(SessionWithEvent(c, st), LAMBDA st1 : OneEach(c, i + 1, sessions, st1))

\* p = WebsiteEvent(id=uuid.uuid4(), session_id=session_id, ..);
\* sql_inserts.append(p.sql())
EventOf(c, session_id, st) ==
    [st EXCEPT !.out = Append(@, RowEvent(c, st.uuid + 1, session_id, st.uuid + 2)),
               !.uuid = @ + 2]

\* for j in range(n): one more event of session_id
RECURSIVE MoreEvents(_, _, _, _, _)
MoreEvents(c, session_id, j, n, st) ==
    IF j >= n THEN st
    ELSE With(EventOf(c, session_id, st),
              LAMBDA st1 : MoreEvents(c, session_id, j + 1, n, st1))

\* session_id = uuid.uuid4(); s = Session(..); sql_inserts.append(s.sql())
SessionAlone(c, st) ==
    [st EXCEPT !.out = Append(@, RowSession(c, st.uuid + 1)),
               !.uuid = @ + 1,
               !.session_id = st.uuid + 1]

\* for i in range(sessions): a session and group_size events of it
\* (the loop of the second branch)
RECURSIVE SplitEqually(_, _, _, _, _)
SplitEqually(c, i, sessions, group_size, st) ==
    IF i >= sessions THEN st
    ELSE With(SessionAlone(c, st), LAMBDA st1 :
         With(MoreEvents(c, st1.session_id, 0, group_size, st1), LAMBDA st2 :
              SplitEqually(c, i + 1, sessions, group_size, st2)))

\* NormSessions without the max
NormSessionsRaw(sessions) == sessions

\* sessions = max(sessions, 1)  # in case it's zero
NormSessions(sessions) == IF sessions > 1 THEN sessions ELSE 1

\* Branch without the elif: whatever is not equal is given to the last session
BranchNoSplit(page_views, sessions) ==
    IF page_views = sessions THEN "equal" ELSE "rest"

\* which of the three branches the if / elif / else takes; "%" by zero raises
Branch(page_views, sessions) ==
    IF page_views = sessions THEN "equal"
    ELSE IF sessions = 0 THEN "raise"
    ELSE IF page_views % sessions = 0 THEN "split"
    ELSE "rest"

\* RestEvents with range(page_views - sessions - 1)
RestEventsShort(c, page_views, sessions, st) ==
    MoreEvents(c, st.session_id, 0, page_views - sessions - 1, st)

\* RestEvents with the row's raw referrer instead of the normalized one
RestEventsRawReferrer(c, page_views, sessions, st) ==
    MoreEvents([c EXCEPT !.referrer = c.row.dimensions[9]], st.session_id, 0,
               page_views - sessions, st)

\* the events that the third branch gives the last session after the loop:
\* for i in range(page_views - sessions), with last_session_id the session_id
\* of the loop's last iteration
RestEvents(c, page_views, sessions, st) ==
    MoreEvents(c, st.session_id, 0, page_views - sessions, st)

\* the three branches
Allocate(c, b, page_views, sessions, st0) ==
    CASE b = "equal" -> OneEach(c, 0, sessions, st0)
      [] b = "split" -> SplitEqually(c, 0, sessions, page_views \div sessions, st0)
      [] b = "rest" ->
            With(OneEach(c, 0, sessions, st0),
                 LAMBDA st1 : RestEvents(c, page_views, sessions, st1))

\* what one iteration of "for row in rows" reads from the row before it
\* allocates: the referrer, the timestamp, the country
RowContext(p, row) ==
    With(_convert_ua_datetime(p, row.dimensions[7]), LAMBDA timestamp :
        IF ~timestamp.ok THEN [ok |-> FALSE]
        ELSE [ok |-> TRUE, row |-> row, website_id |-> WebsiteId(p),
              hostname |-> Hostname(p), timestamp |-> timestamp.value,
              country |-> row.dimensions[8],
              referrer |-> NormReferrer(p, row.dimensions[9])])

\* One iteration of "for row in rows": the records the row adds and the
\* identifiers it draws, or ok = FALSE when the iteration raises.
ExpandRow(p, row, u) ==
    With(RowContext(p, row), LAMBDA c :
        LET page_views == row.metrics[1]
            sessions == NormSessions(row.metrics[2])
            b == Branch(page_views, sessions)
        IN IF ~c.ok \/ b = "raise" THEN [ok |-> FALSE]
           ELSE With(Allocate(c, b, page_views, sessions,
                              [out |-> <<>>, uuid |-> u, session_id |-> 0]),
                     LAMBDA st : [ok |-> TRUE, out |-> st.out, uuid |-> st.uuid]))

\* "for row in rows" over a list of rows: the inserts, and the history entry
\* of every row; ok = FALSE when a row raises (nothing is returned then)
RECURSIVE ExpandRows(_, _, _)
ExpandRows(p, rows, acc) ==
    IF rows = <<>> THEN acc
    ELSE With(ExpandRow(p, rows[1], acc.uuid), LAMBDA r :
            IF ~r.ok THEN [ok |-> FALSE]
            ELSE With([ok |-> TRUE, out |-> acc.out \o r.out, uuid |-> r.uuid,
                       log |-> Append(acc.log, [row |-> rows[1], recs |-> r.out])],
                      LAMBDA acc1 : ExpandRows(p, Tail(rows), acc1)))

\* ga4: _sql(rows, website_id, hostname)
_sql(rows, u) ==
    ExpandRows("ga4", rows, [ok |-> TRUE, out |-> <<>>, uuid |-> u, log |-> <<>>])

\* rows.items() flattened: for day, value in rows.items(): for row in value
RECURSIVE Flatten(_)
Flatten(items) == IF items = <<>> THEN <<>> ELSE items[1].value \o Flatten(Tail(items))

\* ua: __migrate_transform_umami(rows, website_id, hostname)
__migrate_transform_umami(rows, u) ==
    ExpandRows("ua", Flatten(rows), [ok |-> TRUE, out |-> <<>>, uuid |-> u, log |-> <<>>])

(***************************************************************************)
(* The run.  The rows the provider holds are an input, fixed when the run  *)
(* starts: one list of rows per day.  The runs explored are those over one *)
(* row of Rows, and those over at most MaxRows rows of RunRows.            *)
(***************************************************************************)
\* page size of a ga4 request (100000 in the code, scaled down here)
limit == 1

RECURSIVE CountRows(_)
CountRows(lists) ==
    IF lists = <<>> THEN 0 ELSE Len(lists[1]) + CountRows(Tail(lists))

RowLists(S, n) == UNION { [1..k -> S] : k \in 0..n }

Min(a, b) == IF a < b THEN a ELSE b

RunMetrics == { <<0, 0>>, <<1, 1>>, <<3, 2>>, <<4, 2>> }

RunRows == { r \in Rows : r.metrics \in RunMetrics }

\* the lists of rows of n days, at most k rows of S in all
RECURSIVE Sources(_, _, _)
Sources(S, n, k) ==
    IF n = 0 THEN { <<>> }
    ELSE UNION { { <<first>> \o rest : rest \in Sources(S, n - 1, k - Len(first)) } :
                 first \in RowLists(S, k) }

RunStart == <<"2", "0", "2", "4", "-", "0", "2", "-", "2", "8">>

RunEnds ==
    { <<"2", "0", "2", "4", "-", "0", "2", "-", "2", "7">>,
      <<"2", "0", "2", "4", "-", "0", "2", "-", "2", "8">>,
      <<"2", "0", "2", "4", "-", "0", "2", "-", "2", "9">> }

Idle ==
    /\ dates = <<>>
    /\ di = 0
    /\ offset = 0
    /\ fetched = <<>>
    /\ file = <<>>
    /\ uuid = 0
    /\ log = <<>>

Init ==
    /\ prog \in {"ga4", "ua"}
    /\ pc = "start"
    /\ startdate = RunStart
    /\ enddate \in RunEnds
    /\ \E n \in {Len(_dates(startdate, enddate))} :
          source \in Sources(Rows, n, 1) \cup Sources(RunRows, n, MaxRows)
    /\ Idle

\* the line that migrate writes last
Watermark(p) == [kind |-> "watermark", website_id |-> WebsiteId(p)]

\* ga4 migrate up to the for loop: the output file is created empty and the
\* dates are computed
Ga4Start ==
    /\ prog = "ga4" /\ pc = "start"
    /\ file' = <<>>
    /\ dates' = _dates(startdate, enddate)
    /\ di' = 1
    /\ offset' = 0
    /\ pc' = IF dates' = <<>> THEN "watermark" ELSE "fetch"
    /\ UNCHANGED <<prog, startdate, enddate, source, fetched, uuid, log>>

\* client.run_report(request_api): the page of the day's rows at the offset
RunReport(day, off) ==
    [rows |-> SubSeq(source[day], off + 1, Min(off + limit, Len(source[day]))),
     row_count |-> Len(source[day])]

\* ga4: one iteration of "while True": request a page, expand and write its
\* rows, advance the offset, and leave the loop (to the next day, or to the
\* watermark after the last day) when the offset has reached row_count
Ga4RunReport ==
    /\ prog = "ga4" /\ pc = "fetch"
    /\ \E response \in {RunReport(di, offset)} :
       \E r \in {_sql(response.rows, uuid)} :
          /\ fetched' = Append(fetched, [day |-> dates[di], offset |-> offset,
                                         value |-> response.rows])
          /\ IF ~r.ok
             THEN /\ pc' = "failed"
                  /\ UNCHANGED <<di, offset, file, uuid, log>>
             ELSE /\ file' = file \o r.out
                  /\ uuid' = r.uuid
                  /\ log' = log \o r.log
                  /\ IF offset + limit >= response.row_count
                     THEN /\ di' = di + 1
                          /\ offset' = 0
                          /\ pc' = IF di + 1 > Len(dates) THEN "watermark" ELSE "fetch"
                     ELSE /\ offset' = offset + limit
                          /\ UNCHANGED <<di, pc>>
    /\ UNCHANGED <<prog, startdate, enddate, dates, source>>

\* Ga4Watermark with the watermark statement written before the file is
\* closed and once more after it
Ga4WatermarkTwice ==
    /\ prog = "ga4" /\ pc = "watermark"
    /\ file' = file \o <<Watermark(prog), Watermark(prog)>>
    /\ pc' = "done"
    /\ UNCHANGED <<prog, startdate, enddate, dates, di, offset, source, fetched, uuid, log>>

\* ga4: the watermark statement is appended and the run ends
Ga4Watermark ==
    /\ prog = "ga4" /\ pc = "watermark"
    /\ file' = Append(file, Watermark(prog))
    /\ pc' = "done"
    /\ UNCHANGED <<prog, startdate, enddate, dates, di, offset, source, fetched, uuid, log>>

\* ua migrate up to the extraction loop: the date ranges are computed
UaStart ==
    /\ prog = "ua" /\ pc = "start"
    /\ dates' = __migrate_date_ranges(startdate, enddate)
    /\ di' = 1
    /\ fetched' = <<>>
    /\ pc' = IF dates' = <<>> THEN "transform" ELSE "extract"
    /\ UNCHANGED <<prog, startdate, enddate, offset, source, file, uuid, log>>

\* the report's totals: the sums of the two metrics over the day's rows
RECURSIVE Totals(_)
Totals(value) ==
    IF value = <<>> THEN <<0, 0>>
    ELSE With(Totals(Tail(value)), LAMBDA t :
              <<value[1].metrics[1] + t[1], value[1].metrics[2] + t[2]>>)

\* the most rows one response of the ua provider holds when the request
\* names no pageSize (1000 at the provider, scaled down here)
pageSize == 1

\* service.reports().batchGet(body=body).execute(): the request names the
\* day only, no pageSize and no pageToken, so the response holds the first
\* page of the day's rows; its totals are over all rows of the day
batchGet(day) ==
    [rows |-> SubSeq(source[day], 1, Min(pageSize, Len(source[day]))),
     totals |-> Totals(source[day])]

\* ua __migrate_extract: one iteration of "for r in date_ranges": one
\* request; the rows of the response are kept when one of the totals is
\* not '0'
UaExtract ==
    /\ prog = "ua" /\ pc = "extract"
    /\ \E response \in {batchGet(di)} :
       \E num_rows \in {response.totals} :
          fetched' = IF num_rows[1] # 0 \/ num_rows[2] # 0
                     THEN Append(fetched, [day |-> dates[di].startDate,
                                           value |-> response.rows])
                     ELSE fetched
    /\ di' = di + 1
    /\ pc' = IF di + 1 > Len(dates) THEN "transform" ELSE "extract"
    /\ UNCHANGED <<prog, startdate, enddate, dates, offset, source, file, uuid, log>>

\* ua migrate, output_format UMAMI: all rows are expanded, then the file is
\* written: every insert, then the watermark statement
UaTransform ==
    /\ prog = "ua" /\ pc = "transform"
    /\ \E data \in {__migrate_transform_umami(fetched, uuid)} :
          IF ~data.ok
          THEN /\ pc' = "failed"
               /\ UNCHANGED <<file, uuid, log>>
          ELSE /\ file' = Append(data.out, Watermark(prog))
               /\ uuid' = data.uuid
               /\ log' = data.log
               /\ pc' = "done"
    /\ UNCHANGED <<prog, startdate, enddate, dates, di, offset, source, fetched>>

Next ==
    \/ Ga4Start
    \/ Ga4RunReport
    \/ Ga4Watermark
    \/ UaStart
    \/ UaExtract
    \/ UaTransform

Spec == Init /\ [][Next]_vars

(***************************************************************************)
(* The date splitter on its own, over many pairs of dates.                 *)
(***************************************************************************)
\* the calendar days the pairs are drawn from
Calendar ==
    { dt \in [Y : {2023, 2024}, m : {1, 2, 3, 12}, d : {1, 2, 28, 29, 30, 31}] :
        dt.d <= DaysInMonth(dt.Y, dt.m) }

InitDates ==
    /\ prog \in {"ga4", "ua"}
    /\ pc = "start"
    /\ startdate \in { FormatDate(dt) : dt \in Calendar }
    /\ enddate \in { FormatDate(dt) : dt \in Calendar }
    /\ ToOrdinal(ParseDate(enddate)) - ToOrdinal(ParseDate(startdate)) \in (0 - 1)..MaxSpan
    /\ source = <<>>
    /\ Idle

SplitDates ==
    /\ pc = "start"
    /\ dates' = IF prog = "ga4" THEN _dates(startdate, enddate)
                ELSE __migrate_date_ranges(startdate, enddate)
    /\ pc' = "split"
    /\ UNCHANGED <<prog, startdate, enddate, di, offset, source, fetched, file, uuid, log>>

SpecDates == InitDates /\ [][SplitDates]_vars

(***************************************************************************)
(* Vocabulary of the properties.                                           *)
(***************************************************************************)
IsSession(r) == r.kind = "session"

IsEvent(r) == r.kind = "event"

\* the sessions, and the events, among some records, in creation order
SessionsIn(recs) == SelectSeq(recs, IsSession)

EventsIn(recs) == SelectSeq(recs, IsEvent)

\* the number of events among recs that belong to session sid
EventCount(recs, sid) ==
    Cardinality({ i \in 1..Len(recs) : IsEvent(recs[i]) /\ recs[i].session_id = sid })

\* the number of events of each session, in the order the sessions were created
Shape(recs) ==
    [i \in 1..Len(SessionsIn(recs)) |-> EventCount(recs, SessionsIn(recs)[i].session_id)]

\* every record the run has created so far
RECURSIVE AllRecs(_)
AllRecs(l) == IF l = <<>> THEN <<>> ELSE l[1].recs \o AllRecs(Tail(l))

Entries == { log[i] : i \in 1..Len(log) }

PageViews(e) == e.row.metrics[1]

RawSessions(e) == e.row.metrics[2]

Max(a, b) == IF a > b THEN a ELSE b

(***************************************************************************)
(* Properties of the expansion of one row.                                 *)
(***************************************************************************)
\* C1: every expanded row has created exactly max(sessions, 1) sessions and
\* exactly page_views events, whatever its page_views and sessions are
\* (page_views < sessions and page_views = 0 included).
C1_ExactTotals ==
    \A e \in Entries :
        /\ Len(SessionsIn(e.recs)) = Max(RawSessions(e), 1)
        /\ Len(EventsIn(e.recs)) = PageViews(e)

\* C2: every session created for a row owns at least one event, a row with
\* page_views = 0 included.
C2_NoEmptySession ==
    \A e \in Entries :
        \A i \in 1..Len(e.recs) :
            IsSession(e.recs[i]) => EventCount(e.recs, e.recs[i].session_id) >= 1

\* C3: a row with sessions = s > 0 and page_views = k * s, k >= 1, has
\* created exactly s sessions and each of them owns exactly k events.
C3_EvenSplit ==
    \A e \in Entries :
        \A k \in 1..MaxViews :
            (RawSessions(e) > 0 /\ PageViews(e) = k * RawSessions(e)) =>
                Shape(e.recs) = [i \in 1..RawSessions(e) |-> k]

C3_Witness ==
    \E e \in Entries :
        /\ RawSessions(e) = 2 /\ PageViews(e) = 4
        /\ Shape(e.recs) = <<2, 2>>

\* C4: a row with sessions = s, page_views = p, p % s # 0 and p > s has
\* created s sessions; the first s - 1 own exactly one event each and the
\* last one created owns 1 + (p - s) events, p events in all.
C4_RestToLast ==
    \A e \in Entries :
        LET s == RawSessions(e)
            p == PageViews(e)
        IN (s > 0 /\ p > s /\ p % s # 0) =>
              /\ Shape(e.recs) = [i \in 1..s |-> IF i < s THEN 1 ELSE 1 + (p - s)]
              /\ Len(EventsIn(e.recs)) = p

C4_Witness ==
    \E e \in Entries :
        /\ RawSessions(e) = 3 /\ PageViews(e) = 4
        /\ Shape(e.recs) = <<1, 1, 2>>

\* C5: a row with sessions = 0 is expanded into as many sessions, with as
\* many events each (in creation order), as the same row with sessions = 1.
C5_ZeroSessionsAsOne ==
    \A e \in Entries :
        RawSessions(e) = 0 =>
            LET one == ExpandRow(prog, [e.row EXCEPT !.metrics[2] = 1], 0)
            IN one.ok /\ Shape(e.recs) = Shape(one.out)

C5_Witness ==
    \E e \in Entries :
        /\ RawSessions(e) = 0 /\ PageViews(e) = 3
        /\ Shape(e.recs) = <<3>>

\* C6: all events created for one row carry the same url, title, referrer
\* and created_at, and all sessions created for it carry the same browser,
\* os, device, screen, country, created_at and hostname, in every branch.
C6_SharedFields ==
    \A e \in Entries :
        \A i, j \in 1..Len(e.recs) :
            /\ (IsEvent(e.recs[i]) /\ IsEvent(e.recs[j])) =>
                  /\ e.recs[i].url = e.recs[j].url
                  /\ e.recs[i].title = e.recs[j].title
                  /\ e.recs[i].referrer = e.recs[j].referrer
                  /\ e.recs[i].created_at = e.recs[j].created_at
            /\ (IsSession(e.recs[i]) /\ IsSession(e.recs[j])) =>
                  /\ e.recs[i].browser = e.recs[j].browser
                  /\ e.recs[i].os = e.recs[j].os
                  /\ e.recs[i].device = e.recs[j].device
                  /\ e.recs[i].screen = e.recs[j].screen
                  /\ e.recs[i].country = e.recs[j].country
                  /\ e.recs[i].created_at = e.recs[j].created_at
                  /\ e.recs[i].hostname = e.recs[j].hostname

\* a row of the third branch whose raw referrer was discarded, next to a row
\* with other dimension values
C6_Witness ==
    /\ Len(log) = 2
    /\ log[1].row.dimensions # log[2].row.dimensions
    /\ \E e \in Entries :
          /\ RawSessions(e) = 2 /\ PageViews(e) = 3
          /\ e.row.dimensions[9] = "google"
          /\ Len(SessionsIn(e.recs)) = 2
          /\ Len(EventsIn(e.recs)) = 3
          /\ \A i \in 1..3 : EventsIn(e.recs)[i].referrer = ""

(***************************************************************************)
(* Properties of a run.                                                    *)
(***************************************************************************)
\* C7: among all records a run has created, over all its rows, no two
\* sessions have the same session identifier and no two events have the
\* same event identifier.
C7_UniqueIds ==
    LET recs == AllRecs(log)
    IN \A i, j \in 1..Len(recs) :
          i # j =>
             /\ (IsSession(recs[i]) /\ IsSession(recs[j])) =>
                    recs[i].session_id # recs[j].session_id
             /\ (IsEvent(recs[i]) /\ IsEvent(recs[j])) => recs[i].id # recs[j].id

\* a finished run over two rows with several sessions each
C7_Witness ==
    /\ pc = "done"
    /\ Len(log) = 2
    /\ Len(SessionsIn(log[1].recs)) = 2
    /\ Len(SessionsIn(log[2].recs)) = 2

\* the value is twelve digits, YYYYMMDDHHMM
MatchesFormat(dt) == Len(dt) = 12 /\ \A i \in 1..12 : IsDigit(dt[i])

SourceRows == UNION { { source[d][i] : i \in 1..Len(source[d]) } : d \in 1..Len(source) }

\* C8: a row whose date_hour_minute is not of the form YYYYMMDDHHMM is
\* never expanded, and a run whose input holds such a row never completes.
C8_MalformedIsFatal ==
    /\ \A e \in Entries : MatchesFormat(e.row.dimensions[7])
    /\ pc = "done" => \A row \in SourceRows : MatchesFormat(row.dimensions[7])

\* C9: in the ua program a row whose raw referrer is "google" gives all its
\* events the referrer "https://google.com"; any other raw value gives the
\* scheme-prefixed URL when that is a valid URL and "" otherwise.
C9_GoogleReferrer ==
    prog = "ua" =>
        \A e \in Entries :
            \A i \in 1..Len(e.recs) :
                IsEvent(e.recs[i]) =>
                    e.recs[i].referrer =
                        IF e.row.dimensions[9] = "google" THEN "https://google.com"
                        ELSE IF validators_url("https://" \o e.row.dimensions[9])
                             THEN "https://" \o e.row.dimensions[9]
                             ELSE ""

(***************************************************************************)
(* Properties of the date splitter.                                        *)
(***************************************************************************)
\* the day after dt
NextDay(dt) ==
    IF dt.d < DaysInMonth(dt.Y, dt.m) THEN [dt EXCEPT !.d = @ + 1]
    ELSE IF dt.m < 12 THEN [dt EXCEPT !.m = @ + 1, !.d = 1]
    ELSE [Y |-> dt.Y + 1, m |-> 1, d |-> 1]

\* dt is a day, read from 'YYYY-MM-DD' at fixed positions
DayOf(s) ==
    [Y |-> IntOf(SubSeq(s, 1, 4)), m |-> IntOf(SubSeq(s, 6, 7)), d |-> IntOf(SubSeq(s, 9, 10))]

NotAfter(a, b) ==
    \/ a.Y < b.Y
    \/ (a.Y = b.Y /\ a.m < b.m)
    \/ (a.Y = b.Y /\ a.m = b.m /\ a.d <= b.d)

\* the days of the split, ga4 entries and ua entries alike
SplitDay(i) == IF prog = "ga4" THEN dates[i] ELSE dates[i].startDate

\* the number of days from a to b, counted by stepping through the calendar
RECURSIVE DaysBetween(_, _)
DaysBetween(a, b) == IF a = b THEN 0 ELSE 1 + DaysBetween(NextDay(a), b)

\* C10: for start_date <= end_date the splitter returns one entry per day of
\* the closed interval: (end - start in days) + 1 entries, the first
\* start_date, the last end_date, each the day after the one before it; a ua
\* entry has startDate = endDate.
C10_OnePerDay ==
    (pc = "split" /\ NotAfter(DayOf(startdate), DayOf(enddate))) =>
        /\ Len(dates) = DaysBetween(DayOf(startdate), DayOf(enddate)) + 1
        /\ SplitDay(1) = startdate
        /\ SplitDay(Len(dates)) = enddate
        /\ \A i \in 1..(Len(dates) - 1) :
              DayOf(SplitDay(i + 1)) = NextDay(DayOf(SplitDay(i)))
        /\ prog = "ua" => \A i \in 1..Len(dates) : dates[i].startDate = dates[i].endDate

\* three days across the leap day, as ua date ranges
C10_Witness ==
    /\ pc = "split" /\ prog = "ua"
    /\ Len(dates) = 3
    /\ Join(dates[1].startDate) = "2024-02-28"
    /\ Join(dates[2].endDate) = "2024-02-29"
    /\ Join(dates[3].startDate) = "2024-03-01"

(***************************************************************************)
(* Properties of the fetch loop and of the output.                         *)
(***************************************************************************)
\* the requests made so far for the d-th date, in the order they were made
RequestsOf(d) == SelectSeq(fetched, LAMBDA f : f.day = SplitDay(d))

\* the offset a request names (a ua request names none: it starts at 0)
OffsetOf(f) == IF prog = "ga4" THEN f.offset ELSE 0

\* the rows that a sequence of requests has retrieved, in order
RECURSIVE Retrieved(_)
Retrieved(reqs) == IF reqs = <<>> THEN <<>> ELSE reqs[1].value \o Retrieved(Tail(reqs))

\* C11: once the fetch loop has left a date, its requests were made at the
\* offsets 0, limit, 2*limit, ... in this order, the last of them is the
\* first whose offset + limit reaches the date's row count, and together
\* they retrieved every row of the date exactly once, whatever the row
\* count (0 and exact multiples of limit included).
C11_AllRowsOnce ==
    \A d \in 1..Len(dates) :
        d < di =>
            /\ Retrieved(RequestsOf(d)) = source[d]
            /\ \A k \in 1..Len(RequestsOf(d)) :
                  /\ OffsetOf(RequestsOf(d)[k]) = (k - 1) * limit
                  /\ (k * limit >= Len(source[d])) <=> (k = Len(RequestsOf(d)))

IsWatermark(r) == r.kind = "watermark"

\* C12: the output of a run that has completed is one insert statement per
\* session and per event the run created, in creation order, followed by
\* one watermark statement of the website, which is the last statement and
\* the only watermark; so it is for any number of days and pages, a run
\* that fetched no rows included.
C12_InsertsThenWatermark ==
    pc = "done" =>
        /\ file = AllRecs(log) \o <<Watermark(prog)>>
        /\ Len(SelectSeq(file, IsSession)) = Len(SessionsIn(AllRecs(log)))
        /\ Len(SelectSeq(file, IsEvent)) = Len(EventsIn(AllRecs(log)))
        /\ Len(SelectSeq(file, IsWatermark)) = 1
        /\ IsWatermark(file[Len(file)])

\* a completed ga4 run over two days, one of them fetched in two pages
C12_Witness ==
    /\ prog = "ga4" /\ pc = "done"
    /\ Len(dates) = 2
    /\ \E d \in 1..2 : Len(source[d]) = 2 /\ Len(RequestsOf(d)) = 2
    /\ Len(log) = 2
    /\ Len(file) > 3

(***************************************************************************)
(* The ua program with output_format CSV.                                  *)
(***************************************************************************)
\* the fields of the NamedTuple CSVRow, all of them required by its
\* constructor
CSVRowFields ==
    {"path", "title", "browser", "os", "device", "screen", "datetime",
     "country_id", "referral_path", "count", "date"}

\* CSVRow(**kwargs): the constructor raises TypeError unless every field is
\* given and nothing else
CSVRow(kwargs) ==
    IF DOMAIN kwargs = CSVRowFields THEN [ok |-> TRUE, value |-> kwargs]
    ELSE [ok |-> FALSE]

\* CSVRow.header()
header == "path,title,browser,os,device,screen,datetime,country_id,referral_path,count"

\* CSVRow.csv()
csv(self) ==
    self.path \o "," \o self.title \o "," \o self.browser \o "," \o self.os \o ","
    \o self.device \o "," \o self.screen \o "," \o self.datetime \o ","
    \o self.country_id \o "," \o self.referral_path \o "," \o ToString(self.count)

\* the body of "for row in value": the date is converted, the CSVRow is
\* built from the keyword arguments the code passes, its line is appended
RECURSIVE CsvRows(_, _)
CsvRows(rows, csv_rows) ==
    IF rows = <<>> THEN [ok |-> TRUE, out |-> csv_rows]
    ELSE With(_convert_ua_datetime("ua", rows[1].dimensions[7]), LAMBDA date :
         IF ~date.ok THEN [ok |-> FALSE]
         ELSE With(CSVRow([path |-> rows[1].dimensions[1],
                           title |-> rows[1].dimensions[2],
                           browser |-> rows[1].dimensions[3],
                           os |-> rows[1].dimensions[4],
                           device |-> rows[1].dimensions[5],
                           screen |-> rows[1].dimensions[6],
                           date |-> date.value,
                           country_id |-> rows[1].dimensions[8],
                           referral_path |-> rows[1].dimensions[9],
                           count |-> rows[1].metrics[1]]), LAMBDA row :
              IF ~row.ok THEN [ok |-> FALSE]
              ELSE CsvRows(Tail(rows), Append(csv_rows, csv(row.value)))))

\* ua: __migrate_transform_csv(rows)
__migrate_transform_csv(rows) == CsvRows(Flatten(rows), <<header>>)

\* the rows that __migrate_extract has returned, one entry per day
InitCsv ==
    /\ prog = "ua"
    /\ pc = "transform"
    /\ startdate = RunStart
    /\ enddate \in RunEnds
    /\ dates = __migrate_date_ranges(startdate, enddate)
    /\ source \in Sources(Rows, Len(dates), 1) \cup Sources(RunRows, Len(dates), MaxRows)
    /\ fetched = [d \in 1..Len(dates) |-> [day |-> dates[d].startDate, value |-> source[d]]]
    /\ di = Len(dates) + 1
    /\ offset = 0
    /\ file = <<>>
    /\ uuid = 0
    /\ log = <<>>

\* ua migrate, output_format CSV: the rows are transformed, then the lines
\* are written to the file
UaTransformCsv ==
    /\ prog = "ua" /\ pc = "transform"
    /\ \E data \in {__migrate_transform_csv(fetched)} :
          IF ~data.ok
          THEN /\ pc' = "csv_failed"
               /\ UNCHANGED file
          ELSE /\ file' = data.out
               /\ pc' = "csv_done"
    /\ UNCHANGED <<prog, startdate, enddate, dates, di, offset, source, fetched, uuid, log>>

SpecCsv == InitCsv /\ [][UaTransformCsv]_vars

\* the line the header's column order gives a row: its nine dimension
\* values, then its page_views
LineOf(row) ==
    row.dimensions[1] \o "," \o row.dimensions[2] \o "," \o row.dimensions[3] \o ","
    \o row.dimensions[4] \o "," \o row.dimensions[5] \o "," \o row.dimensions[6] \o ","
    \o Join(row.dimensions[7]) \o "," \o row.dimensions[8] \o ","
    \o row.dimensions[9] \o "," \o ToString(row.metrics[1])

\* C13: in CSV mode, for every set of fetched rows, the transform returns
\* the header line followed by exactly one line per input row, in input
\* order, each with the row's nine dimension values and its page_views in
\* the column order of the header.
C13_HeaderAndLines ==
    pc \in {"csv_done", "csv_failed"} =>
        /\ pc = "csv_done"
        /\ Len(file) = 1 + Len(Flatten(fetched))
        /\ file[1] = header
        /\ \A i \in 1..Len(Flatten(fetched)) : file[i + 1] = LineOf(Flatten(fetched)[i])

(***************************************************************************)
(* Session.sql() and WebsiteEvent.sql().  Here the string fields of a      *)
(* record are sequences of characters, and the statement is given by the   *)
(* text it puts between the quotes of each value.                          *)
(***************************************************************************)
\* the longest tail of the input strings
MaxTail == 2

\* str[:length]
Slice(str, length) == SubSeq(str, 1, Min(length, Len(str)))

\* str.replace("'", "''")
RECURSIVE replace(_)
replace(str) ==
    IF str = <<>> THEN <<>>
    ELSE IF Len(str) = 1 THEN (IF str[1] = "'" THEN <<"'", "'">> ELSE str)
    ELSE With(Len(str) \div 2, LAMBDA h :
              replace(SubSeq(str, 1, h)) \o replace(SubSeq(str, h + 1, Len(str))))

\* str.replace("'", "''")[:length] if str else ''   (None is <<>> here)
_safe_db_value(str, length) ==
    IF str = <<>> THEN <<>> ELSE Slice(replace(str), length)

\* the position of the first character of str that is in set, Len(str) + 1
\* when there is none
First(str, set) ==
    With({ i \in 1..Len(str) : str[i] \in set } \cup {Len(str) + 1}, LAMBDA S :
         CHOOSE m \in S : \A k \in S : m <= k)

HttpsScheme == <<"h", "t", "t", "p", "s", ":", "/", "/">>

\* urlparse(url) for a url without fragment and parameters, relative or
\* with the scheme https: hostname (None is <<>>), path, query
urlparse(url) ==
    With(Len(url) >= 8 /\ SubSeq(url, 1, 8) = HttpsScheme, LAMBDA absolute :
    With(IF absolute THEN SubSeq(url, 9, Len(url)) ELSE url, LAMBDA rest :
    With(IF absolute THEN First(rest, {"/", "?"}) ELSE 1, LAMBDA n :
    With(SubSeq(rest, n, Len(rest)), LAMBDA tail :
    With(First(tail, {"?"}), LAMBDA q :
         [hostname |-> SubSeq(rest, 1, n - 1),
          path |-> SubSeq(tail, 1, q - 1),
          query |-> SubSeq(tail, q + 1, Len(tail))])))))

\* Session.sql(): the values of the insert statement
Session_sql(self) ==
    [kind |-> "session",
     session_id |-> self.session_id,
     website_id |-> self.website_id,
     created_at |-> self.created_at,
     hostname |-> Slice(self.hostname, 100),
     browser |-> _safe_db_value(self.browser, 20),
     os |-> _safe_db_value(self.os, 20),
     device |-> _safe_db_value(self.device, 20),
     screen |-> _safe_db_value(self.screen, 10),
     country |-> self.country]

\* WebsiteEvent.sql(): the values of the insert statement
WebsiteEvent_sql(self) ==
    With(urlparse(self.url), LAMBDA url_data :
    With(urlparse(self.referrer), LAMBDA referrer_data :
        [kind |-> "event",
         event_id |-> self.id,
         website_id |-> self.website_id,
         session_id |-> self.session_id,
         created_at |-> self.created_at,
         url_path |-> _safe_db_value(url_data.path, 500),
         url_query |-> _safe_db_value(url_data.query, 500),
         referrer_path |-> _safe_db_value(referrer_data.path, 500),
         referrer_query |-> _safe_db_value(referrer_data.query, 500),
         referrer_domain |-> _safe_db_value(referrer_data.hostname, 500),
         page_title |-> _safe_db_value(self.title, 500),
         event_name |-> "pageview",
         visit_id |-> self.visit_id]))

\* the input strings for a field of width w: up to MaxTail characters, each
\* a letter or a quote, after 0, w - 1 or w letters
Letters(n) == [i \in 1..n |-> "x"]

Tails == UNION { [1..k -> {"x", "'"}] : k \in 0..MaxTail }

Strings(w) == { Letters(k) \o t : k \in {0, w - 1, w}, t \in Tails }

\* the records rendered: one string field takes an input string
PlainSession == Session(1, "website_id", "2024-01-01 09:30:00.000+00", <<"h">>, <<"b">>,
                        <<"o">>, <<"d">>, <<"s">>, <<"U", "S">>)

PlainEvent == WebsiteEvent(2, "website_id", 1, "2024-01-01 09:30:00.000+00", <<"/">>,
                           <<"t">>, <<>>, 3)

ExampleCom == HttpsScheme \o <<"e", "x", "a", "m", "p", "l", "e", ".", "c", "o", "m">>

SqlInputs ==
    { [PlainSession EXCEPT !.hostname = v] : v \in Strings(100) }
    \cup { [PlainSession EXCEPT !.browser = v] : v \in Strings(20) }
    \cup { [PlainSession EXCEPT !.os = v] : v \in Strings(20) }
    \cup { [PlainSession EXCEPT !.device = v] : v \in Strings(20) }
    \cup { [PlainSession EXCEPT !.screen = v] : v \in Strings(10) }
    \cup { [PlainSession EXCEPT !.country = v] : v \in Strings(2) }
    \cup { [PlainEvent EXCEPT !.title = v] : v \in Strings(500) }
    \cup { [PlainEvent EXCEPT !.url = <<"/">> \o v] : v \in Strings(500) }
    \cup { [PlainEvent EXCEPT !.url = <<"/", "?">> \o v] : v \in Strings(500) }
    \cup { [PlainEvent EXCEPT !.referrer = ExampleCom \o <<"/">> \o v] : v \in Strings(500) }
    \cup { [PlainEvent EXCEPT !.referrer = ExampleCom \o <<"/", "?">> \o v] : v \in Strings(500) }

\* a record has been created and waits to be rendered
InitSql ==
    /\ prog \in {"ga4", "ua"}
    /\ pc = "render"
    /\ startdate = RunStart
    /\ enddate = RunStart
    /\ source = <<>>
    /\ dates = <<>>
    /\ di = 0
    /\ offset = 0
    /\ fetched = <<>>
    /\ file = <<>>
    /\ uuid = 3
    /\ \E r \in SqlInputs : log = <<[row |-> <<>>, recs |-> <<r>>]>>

\* insert = s.sql() / p.sql(): the statement of the record is written
RenderSql ==
    /\ pc = "render"
    /\ \E r \in {log[1].recs[1]} :
          file' = <<IF IsSession(r) THEN Session_sql(r) ELSE WebsiteEvent_sql(r)>>
    /\ pc' = "rendered"
    /\ UNCHANGED <<prog, startdate, enddate, dates, di, offset, source, fetched, uuid, log>>

SpecSql == InitSql /\ [][RenderSql]_vars

\* the column widths of the string fields (country has none)
ColumnWidth ==
    [hostname |-> 100, browser |-> 20, os |-> 20, device |-> 20, screen |-> 10,
     url_path |-> 500, url_query |-> 500, referrer_path |-> 500,
     referrer_query |-> 500, referrer_domain |-> 500, page_title |-> 500]

SessionStrings == {"hostname", "browser", "os", "device", "screen", "country"}

EventStrings ==
    {"url_path", "url_query", "referrer_path", "referrer_query", "referrer_domain",
     "page_title"}

\* the number of quotes in a row from position i on
RunLength(text, i) ==
    (CHOOSE m \in i..(Len(text) + 1) :
        /\ (m = Len(text) + 1 \/ text[m] # "'")
        /\ \A k \in i..(m - 1) : text[k] = "'") - i

\* every quote of the text stands in a run of quotes of even length
QuotesPaired(text) ==
    \A i \in 1..Len(text) :
        (text[i] = "'" /\ (i = 1 \/ text[i - 1] # "'")) => RunLength(text, i) % 2 = 0

\* C14: every string value of a rendered session or event statement is no
\* longer than the width of its column (hostname 100, browser, os, device
\* 20, screen 10, the url, referrer and title fields 500) and every quote
\* in it is doubled, so that it holds no unpaired quote, also when the
\* input is longer than the width.
C14_SafeLiterals ==
    pc = "rendered" =>
        \A f \in (IF IsSession(file[1]) THEN SessionStrings ELSE EventStrings) :
            /\ f \in DOMAIN ColumnWidth => Len(file[1][f]) <= ColumnWidth[f]
            /\ QuotesPaired(file[1][f])

(***************************************************************************)
(* Order of the statements.                                                *)
(***************************************************************************)
\* the event at position i of recs refers to a session at an earlier
\* position of recs
RefersBack(recs, i) ==
    \E j \in 1..(i - 1) :
        IsSession(recs[j]) /\ recs[j].session_id = recs[i].session_id

\* C15: every event statement refers to a session whose statement stands
\* earlier in the output, and that session was created from the same input
\* row as the event, for any rows and in each of the three branches.
C15_EventAfterItsSession ==
    /\ \A e \in Entries :
          \A i \in 1..Len(e.recs) : IsEvent(e.recs[i]) => RefersBack(e.recs, i)
    /\ \A i \in 1..Len(file) : IsEvent(file[i]) => RefersBack(file, i)

\* a completed run over a row of the equal branch, then one of the third
\* branch whose last session got two events
C15_Witness ==
    /\ pc = "done"
    /\ Len(log) = 2
    /\ log[1].row.metrics = <<1, 1>>
    /\ log[2].row.metrics = <<3, 2>>
    /\ Shape(log[2].recs) = <<1, 2>>
    /\ Len(file) = 8

====
